---------------------------- MODULE Spec2Model ----------------------------
(***************************************************************************)
(* Workflow recording/replay engine (WorkflowEngine) and application rate  *)
(* governor (ApplicationTracker) of linkedin_workflow_automation.py.       *)
(*                                                                         *)
(* Conventions                                                             *)
(*  - A Python dict is a sequence of entries in insertion order.           *)
(*  - uuid7str() is a counter over IdRange: every call returns a fresh     *)
(*    identifier.  Application records are numbered on their own; no code  *)
(*    compares identifiers of different kinds.                             *)
(*  - datetime.now() is the variable now, advanced by Tick; a calendar day *)
(*    is DayLength ticks.                                                  *)
(*  - A value that json.dump wrote through default=str is tagged           *)
(*    kind = "str": it keeps its text, but reading an attribute of it      *)
(*    raises AttributeError.  A datetime that save_templates replaced by   *)
(*    its isoformat() text is tagged the same way.                         *)
(*  - success_rate is an exact rational <<p, q>> in lowest terms; float    *)
(*    rounding is not modelled.                                            *)
(*  - A text string is a sequence of one-character strings.                *)
(*  - The step executor (_execute_step and what it drives) is the          *)
(*    environment: each execution returns True, returns False or raises.   *)
(*  - The clock never goes back.                                           *)
(*  - ret names the last call made and holds, in a sequence, the object    *)
(*    it returned; a call that returned None or a truth value, or that     *)
(*    raised, leaves the empty sequence there.                             *)
(***************************************************************************)
EXTENDS Integers, Sequences, FiniteSets, TLC

VARIABLES
    templates,          \* WorkflowEngine.templates
    templates_file,     \* workflows/templates.json
    active_workflows,   \* WorkflowEngine.active_workflows
    recording_mode,     \* WorkflowEngine.recording_mode
    next_id,            \* the next value of uuid7str()
    now,                \* datetime.now()
    last_exc,           \* the exception the last call raised, or "none"
    pc,                 \* position of the replay_workflow coroutine
    rp_template,        \* replay_workflow: template_id
    rp_i,               \* replay_workflow: index of the step the loop is at
    rp_success,         \* replay_workflow: the local variable success
    rp_log,             \* executor calls and pacing sleeps of the last replay
    rp_result,          \* how the last replay_workflow call ended: "Succeeded"
                        \* (returned True), "Failed" (returned False after the
                        \* loop), "NotFound" (returned False at the lookup),
                        \* "Raised" (an exception left the call), or "none"
    rp_seq,             \* number of replay_workflow calls made so far
    hist,               \* per template id: how its replays ended
    applications,       \* ApplicationTracker.applications
    apps_file,          \* applications/applications.json
    daily_limits,       \* ApplicationTracker.daily_limits
    recorded,           \* the record_application calls made so far
    ret,                \* the last call and the value it returned
    cycle,              \* the orchestrator's handling of a detected job, when
                        \* that is the last call made
    is_active,          \* LinkedInWorkflowAutomation.is_active
    automation_callbacks, \* LinkedInWorkflowAutomation.automation_callbacks
    notified,           \* the calls made to the registered callbacks so far
    tasks               \* the start_automation coroutines of the event loop

engine_vars == <<templates, templates_file, active_workflows, recording_mode,
                 next_id, last_exc, pc, rp_template, rp_i, rp_success,
                 rp_log, rp_result, rp_seq, hist>>

tracker_vars == <<applications, apps_file, daily_limits, recorded>>

automation_vars == <<is_active, automation_callbacks, notified, tasks>>

vars == <<templates, templates_file, active_workflows, recording_mode,
          next_id, now, last_exc, pc, rp_template, rp_i, rp_success, rp_log,
          rp_result, rp_seq, hist, applications, apps_file, daily_limits,
          recorded, ret, cycle, is_active, automation_callbacks, notified,
          tasks>>

----------------------------------------------------------------------------
(* Bounds of the model.                                                    *)

MaxSteps == 2           \* steps recorded into one draft
MaxReplays == 2         \* replay_workflow calls
MaxTime == 2            \* last tick of the clock
MaxApps == 3            \* record_application calls
MaxReports == 1         \* applications a host reports beside the orchestrator
MaxTemplates == 2       \* templates in the store the matcher is applied to
DayLength == 2          \* ticks per calendar day
MaxTasks == 2           \* start_automation coroutines alive at a time
MaxNotes == 1           \* notes added to one application record
MaxCallbacks == 2       \* callbacks a host registers

(* The identifiers uuid7str() hands out to the engine, in this order: one  *)
(* recording and its template, or two recordings.                          *)
IdRange == {1, 2}

(* The identifiers uuid7str() hands out over two recordings that the       *)
(* orchestrator makes, each with its template.                             *)
CycleIds == {1, 2, 3, 4}

(* WorkflowStep.max_retries defaults to 3.                                 *)
DefaultMaxRetries == 3

----------------------------------------------------------------------------
(* Helpers.                                                                *)

RECURSIVE GCD(_, _)
GCD(a, b) == IF b = 0 THEN a ELSE GCD(b, a % b)

(* The rational p/q in lowest terms.                                       *)
Rat(p, q) == IF p = 0 THEN <<0, 1>> ELSE <<p \div GCD(p, q), q \div GCD(p, q)>>

Range(s) == {s[i] : i \in DOMAIN s}

(* Positions of the entry with identifier id in a dict.                    *)
Index(dict, id) == {i \in DOMAIN dict : dict[i].id = id}

Has(dict, id) == Index(dict, id) # {}

At(dict, id) == CHOOSE i \in DOMAIN dict : dict[i].id = id

Remove(dict, id) == SelectSeq(dict, LAMBDA e : e.id # id)

DateTime(t) == [kind |-> "datetime", t |-> t]

(* datetime.isoformat(): the text of the timestamp.                        *)
IsoFormat(d) == [kind |-> "str", t |-> d.t]

(* str(x) as json.dump's default= applies it to a dataclass instance.      *)
ToStr(x) == [x EXCEPT !.kind = "str"]

(* The steps a caller can pass to record_step.                             *)
StepValues == [kind : {"obj"}, required : BOOLEAN, max_retries : {DefaultMaxRetries}]

(* What one call of the executor does.                                     *)
Outcomes == {"ok", "fail", "raise"}

(* str.lower() on the alphabet of the model.                               *)
LowerChar(c) ==
    CASE c = "A" -> "a"
      [] c = "B" -> "b"
      [] c = "F" -> "f"
      [] OTHER -> c

Lower(text) == [i \in DOMAIN text |-> LowerChar(text[i])]

(* Python's  p in s  for two strings: p occurs in s as a substring.  The   *)
(* empty string occurs in every string.                                    *)
In(p, text) ==
    \E k \in 0..(Len(text) - Len(p)) : SubSeq(text, k + 1, k + Len(p)) = p

Ret(op, value) == [op |-> op, value |-> value]

NoRet == Ret("none", <<>>)

(* The last call was not the orchestrator's handling of a job.  Otherwise  *)
(* cycle describes that handling: job holds the job in a sequence;         *)
(* decision is what _should_apply_to_job did ("apply", "skip", "raise");   *)
(* path is the branch apply_to_job took ("replay", "manual"); ranking is   *)
(* the list find_matching_templates returned, as identifiers; running      *)
(* says that apply_to_job is suspended in replay_workflow; outcome is how  *)
(* apply_to_job ended ("true", "false", "raised").                         *)
NoCycle == [job |-> <<>>, decision |-> "none", path |-> "none", ranking |-> <<>>,
            running |-> FALSE, outcome |-> "none"]

(* The coroutines of start_automation the event loop can hold.             *)
TaskIds == 1..MaxTasks

(* A start_automation coroutine that is not running.  Otherwise at is the  *)
(* await the coroutine is suspended in: "manual" (the sleep after a        *)
(* record_step of the manual path, m steps recorded into workflow_id),     *)
(* "replay" (the executor, before step i of template), "stats" (the        *)
(* executor or the pacing sleep after the last step executed), "sleeping"  *)
(* (the sleep after a scan).  job holds the job being applied to, success  *)
(* is the replay's local variable, and stop_seen says that stop_automation *)
(* was called since the coroutine began.                                   *)
NoTask == [at |-> "off", job |-> <<>>, workflow_id |-> 0, m |-> 0,
           template |-> 0, i |-> 0, success |-> FALSE, stop_seen |-> FALSE]

(* The loop  for callback in automation_callbacks: await callback(...)  as *)
(* the calls it makes, in order.                                           *)
Notify(event, job, success) ==
    [k \in DOMAIN automation_callbacks |->
         [callback |-> automation_callbacks[k], event |-> event, job |-> job,
          success |-> success]]

----------------------------------------------------------------------------
(* WorkflowEngine: persistence.                                            *)

(* The loop of save_templates over data = [template.__dict__ ...], from    *)
(* entry i on.  The dictionaries are the templates' own attribute          *)
(* dictionaries, so the two assignments replace the templates' datetimes   *)
(* by text; isoformat() of a text raises AttributeError, which ends the    *)
(* loop with the entries before i converted.                               *)
RECURSIVE ConvertDates(_, _)
ConvertDates(ts, i) ==
    IF i > Len(ts) THEN [templates |-> ts, raised |-> FALSE]
    ELSE IF ts[i].created_date.kind # "datetime"
         THEN [templates |-> ts, raised |-> TRUE]
    ELSE LET t1 == [ts EXCEPT ![i].created_date = IsoFormat(@)]
         IN  IF ts[i].last_updated.kind # "datetime"
             THEN [templates |-> t1, raised |-> TRUE]
             ELSE ConvertDates([t1 EXCEPT ![i].last_updated = IsoFormat(@)], i + 1)

(* json.dump(data, default=str): a WorkflowStep is written as its str().   *)
DumpTemplate(t) == [t EXCEPT !.steps = [i \in DOMAIN t.steps |-> ToStr(t.steps[i])]]

DumpTemplates(ts) == [i \in DOMAIN ts |-> DumpTemplate(ts[i])]

(* A save that converts the dates in a copy of each template's attribute   *)
(* dictionary: the templates stay as they are and nothing raises.          *)
SaveTemplatesOfCopies(ts, file) ==
    [templates |-> ts,
     file |-> DumpTemplates([i \in DOMAIN ts |->
                                [ts[i] EXCEPT !.created_date = ToStr(@),
                                              !.last_updated = ToStr(@)]]),
     raised |-> FALSE]

(* save_templates: the templates afterwards, the file afterwards, and      *)
(* whether it raised (the file is opened only after the loop).             *)
SaveTemplates(ts, file) ==
    LET c == ConvertDates(ts, 1)
    IN  [templates |-> c.templates,
         file |-> IF c.raised THEN file ELSE DumpTemplates(c.templates),
         raised |-> c.raised]

(* _load_templates: every entry of the file becomes a WorkflowTemplate     *)
(* whose fields are the entry's values, with no conversion of the dates    *)
(* or of the steps.                                                        *)
LoadTemplates(file) == file

----------------------------------------------------------------------------
(* WorkflowEngine: recording.                                              *)

NewTemplate(id, steps) ==
    [id |-> id, steps |-> steps, success_rate |-> <<0, 1>>, usage_count |-> 0,
     created_date |-> DateTime(now), last_updated |-> DateTime(now),
     company_pattern |-> <<>>, job_type_pattern |-> <<>>, tags |-> <<>>]

start_recording_workflow ==
    /\ pc = "idle"
    /\ next_id \in IdRange
    /\ active_workflows' = Append(active_workflows, [id |-> next_id, steps |-> <<>>])
    /\ recording_mode' = TRUE
    /\ next_id' = next_id + 1
    /\ last_exc' = "none"
    /\ ret' = Ret("start_recording_workflow", <<next_id>>)
    /\ cycle' = NoCycle
    /\ UNCHANGED <<templates, templates_file, now, pc, rp_template, rp_i,
                   rp_success, rp_log, rp_result, rp_seq, hist>>
    /\ UNCHANGED tracker_vars
    /\ UNCHANGED automation_vars

record_step(workflow_id, step) ==
    /\ pc = "idle"
    /\ IF Has(active_workflows, workflow_id)
       THEN /\ Len(active_workflows[At(active_workflows, workflow_id)].steps) < MaxSteps
            /\ active_workflows' =
                   [active_workflows EXCEPT
                        ![At(active_workflows, workflow_id)].steps = Append(@, step)]
       ELSE UNCHANGED active_workflows
    /\ last_exc' = "none"
    /\ ret' = Ret("record_step", <<>>)
    /\ cycle' = NoCycle
    /\ UNCHANGED <<templates, templates_file, recording_mode, next_id, now, pc,
                   rp_template, rp_i, rp_success, rp_log, rp_result, rp_seq, hist>>
    /\ UNCHANGED tracker_vars
    /\ UNCHANGED automation_vars

(* A rejection that comes after the recording flag was cleared.            *)
RejectAfterClearingFlag(workflow_id) ==
    /\ last_exc' = "ValueError"
    /\ ret' = [op |-> "stop_recording_workflow", value |-> <<>>,
               workflow_id |-> workflow_id]
    /\ recording_mode' = FALSE
    /\ UNCHANGED <<templates, templates_file, active_workflows, next_id>>

(* The raise of stop_recording_workflow for a workflow_id that is not in   *)
(* active_workflows: it comes before every assignment.                     *)
RejectUnknownWorkflow(workflow_id) ==
    /\ last_exc' = "ValueError"
    /\ ret' = [op |-> "stop_recording_workflow", value |-> <<>>,
               workflow_id |-> workflow_id]
    /\ UNCHANGED <<templates, templates_file, active_workflows,
                   recording_mode, next_id>>

(* stop_recording_workflow, with the new template's identifier drawn from  *)
(* ids.                                                                    *)
StopRecording(workflow_id, ids) ==
    /\ pc = "idle"
    /\ Has(active_workflows, workflow_id) => next_id \in ids
    /\ IF ~Has(active_workflows, workflow_id)
       THEN RejectUnknownWorkflow(workflow_id)
       ELSE LET steps == active_workflows[At(active_workflows, workflow_id)].steps
                saved == SaveTemplates(Append(templates, NewTemplate(next_id, steps)),
                                       templates_file)
            IN  /\ templates' = saved.templates
                /\ templates_file' = saved.file
                /\ active_workflows' = Remove(active_workflows, workflow_id)
                /\ recording_mode' = FALSE
                /\ next_id' = next_id + 1
                /\ last_exc' = IF saved.raised THEN "AttributeError" ELSE "none"
                /\ ret' = [op |-> "stop_recording_workflow",
                           value |-> IF saved.raised THEN <<>>
                                     ELSE <<saved.templates[Len(saved.templates)]>>,
                           workflow_id |-> workflow_id]
    /\ cycle' = NoCycle
    /\ UNCHANGED <<now, pc, rp_template, rp_i, rp_success, rp_log, rp_result,
                   rp_seq, hist>>
    /\ UNCHANGED tracker_vars
    /\ UNCHANGED automation_vars

stop_recording_workflow(workflow_id) == StopRecording(workflow_id, IdRange)

(* stop_recording_workflow in a process that had two drafts open.          *)
stop_recording(workflow_id) == StopRecording(workflow_id, CycleIds)

(* LinkedInWorkflowAutomation.save_current_workflow: without the recording *)
(* flag it returns None; with it, it stops the first draft of              *)
(* active_workflows, and list(...)[0] raises IndexError when there is no   *)
(* draft.                                                                  *)
save_current_workflow ==
    IF recording_mode /\ active_workflows # <<>>
    THEN stop_recording(active_workflows[1].id)
    ELSE /\ pc = "idle"
         /\ ret' = Ret("save_current_workflow", <<>>)
         /\ last_exc' = IF recording_mode THEN "IndexError" ELSE "none"
         /\ cycle' = NoCycle
         /\ UNCHANGED <<templates, templates_file, active_workflows,
                        recording_mode, next_id, now, pc, rp_template, rp_i,
                        rp_success, rp_log, rp_result, rp_seq, hist>>
         /\ UNCHANGED tracker_vars
         /\ UNCHANGED automation_vars

----------------------------------------------------------------------------
(* WorkflowEngine: replay.                                                 *)

(* A lookup that falls back to the first template.                         *)
ResolveTemplateOrFirst(template_id) ==
    IF Has(templates, template_id) THEN At(templates, template_id)
    ELSE IF templates # <<>> THEN 1 ELSE 0

(* replay_workflow's lookup: the position of template_id in the store,     *)
(* or 0 when template_id is not in self.templates.                         *)
ResolveTemplate(template_id) ==
    IF Has(templates, template_id) THEN At(templates, template_id) ELSE 0

(* The template the running replay holds.                                  *)
rp_pos == ResolveTemplate(rp_template)

(* A loop that ends at every failing step, required or not.                *)
BreaksOnAnyFailure(step, outcome) == outcome \in {"fail", "raise"}

(* Whether the loop ends at a step whose execution ended with outcome:     *)
(* the two break statements.                                               *)
Breaks(step, outcome) == outcome \in {"fail", "raise"} /\ step.required

(* The local success after the step, given its value before.               *)
SuccessAfter(step, outcome, before) ==
    CASE outcome = "ok" -> TRUE
      [] outcome = "fail" -> FALSE
      [] outcome = "raise" -> IF step.required THEN FALSE ELSE before

(* What the step adds to the log: the executor call and, when the code     *)
(* reaches it, the pacing sleep.                                           *)
LogOf(i, step, outcome) ==
    <<[op |-> "exec", step |-> i, outcome |-> outcome]>> \o
    (IF outcome = "ok" \/ (outcome = "fail" /\ ~step.required)
     THEN <<[op |-> "sleep", step |-> i]>> ELSE <<>>)

(* The statistics update of replay_workflow.                               *)
UpdateStatistics(t, success) ==
    LET n == t.usage_count + 1
        p == t.success_rate[1]
        q == t.success_rate[2]
    IN  [t EXCEPT !.usage_count = n,
                  !.success_rate = IF success THEN Rat(p * (n - 1) + q, q * n)
                                              ELSE Rat(p * (n - 1), q * n),
                  !.last_updated = DateTime(now)]

Ended(h, how) == [h EXCEPT ![rp_template][how] = @ + 1]

(* apply_to_job, when it is the caller that awaits the replay, ends with   *)
(* outcome; a replay called directly has no cycle to end.                  *)
EndCycle(outcome) ==
    IF cycle.running THEN [cycle EXCEPT !.running = FALSE, !.outcome = outcome]
    ELSE cycle

(* The call, up to the loop: the lookup and the early return.              *)
CallReplay(template_id) ==
    /\ pc = "idle"
    /\ rp_seq < MaxReplays
    /\ rp_seq' = rp_seq + 1
    /\ rp_template' = template_id
    /\ rp_log' = <<>>
    /\ rp_i' = 1
    /\ last_exc' = "none"
    /\ ret' = Ret("replay_workflow", <<>>)
    /\ IF ResolveTemplate(template_id) = 0
       THEN \* return False before anything else
            /\ rp_result' = "NotFound"
            /\ rp_success' = FALSE
            /\ pc' = "idle"
       ELSE /\ rp_result' = "none"
            /\ rp_success' = TRUE
            /\ pc' = IF templates[ResolveTemplate(template_id)].steps = <<>>
                     THEN "stats" ELSE "loop"
    /\ UNCHANGED <<templates, templates_file, active_workflows, recording_mode,
                   next_id, now, hist>>

(* A replay that is called directly.                                       *)
replay_workflow(template_id) ==
    /\ CallReplay(template_id)
    /\ cycle' = NoCycle
    /\ UNCHANGED tracker_vars
    /\ UNCHANGED automation_vars

(* One iteration of the loop over template.steps.                          *)
replay_step(outcome) ==
    /\ pc = "loop"
    /\ LET step == templates[rp_pos].steps[rp_i]
       IN  IF step.kind = "str"
           THEN \* step.description raises in _execute_step and again in the handler
                /\ rp_result' = "Raised"
                /\ last_exc' = "AttributeError"
                /\ hist' = Ended(hist, "raised")
                /\ pc' = "idle"
                /\ cycle' = EndCycle("raised")
                /\ UNCHANGED <<rp_success, rp_log, rp_i>>
           ELSE /\ rp_success' = SuccessAfter(step, outcome, rp_success)
                /\ rp_log' = rp_log \o LogOf(rp_i, step, outcome)
                /\ IF Breaks(step, outcome) \/ rp_i = Len(templates[rp_pos].steps)
                   THEN pc' = "stats" /\ rp_i' = rp_i
                   ELSE pc' = "loop" /\ rp_i' = rp_i + 1
                /\ UNCHANGED <<rp_result, last_exc, hist, cycle>>
    /\ UNCHANGED <<templates, templates_file, active_workflows, recording_mode,
                   next_id, now, rp_template, rp_seq, ret>>
    /\ UNCHANGED tracker_vars
    /\ UNCHANGED automation_vars

(* The statistics update and the save_templates call after the loop.       *)
ReplaySaved ==
    SaveTemplates([templates EXCEPT ![rp_pos] = UpdateStatistics(@, rp_success)],
                  templates_file)

(* How the call ends once the loop is over.                                *)
ReplayHow ==
    IF ReplaySaved.raised THEN "raised"
    ELSE IF rp_success THEN "succeeded" ELSE "failed"

(* After the loop, in the engine: the statistics update, save_templates    *)
(* and the return.                                                         *)
FinishReplay ==
    /\ pc = "stats"
    /\ templates' = ReplaySaved.templates
    /\ templates_file' = ReplaySaved.file
    /\ last_exc' = IF ReplaySaved.raised THEN "AttributeError" ELSE "none"
    /\ rp_result' = CASE ReplayHow = "raised" -> "Raised"
                      [] ReplayHow = "succeeded" -> "Succeeded"
                      [] ReplayHow = "failed" -> "Failed"
    /\ hist' = Ended(hist, ReplayHow)
    /\ pc' = "idle"
    /\ UNCHANGED <<active_workflows, recording_mode, next_id, now, rp_template,
                   rp_i, rp_success, rp_log, rp_seq>>

(* The end of a replay that was called directly.                           *)
replay_finish ==
    /\ ~cycle.running
    /\ FinishReplay
    /\ UNCHANGED <<ret, cycle>>
    /\ UNCHANGED tracker_vars
    /\ UNCHANGED automation_vars

----------------------------------------------------------------------------
(* WorkflowEngine: matching.                                               *)

(* A sort that puts the lowest success_rate first.                         *)
RECURSIVE SortAscending(_)
SortAscending(ts) ==
    IF ts = <<>> THEN <<>>
    ELSE LET x == ts[Len(ts)]
             before == SortAscending(SubSeq(ts, 1, Len(ts) - 1))
         IN  SelectSeq(before, LAMBDA t :
                           t.success_rate[1] * x.success_rate[2]
                               <= x.success_rate[1] * t.success_rate[2])
             \o <<x>> \o
             SelectSeq(before, LAMBDA t :
                           t.success_rate[1] * x.success_rate[2]
                               > x.success_rate[1] * t.success_rate[2])

(* r1 < r2 for two success rates.                                          *)
RateLess(r1, r2) == r1[1] * r2[2] < r2[1] * r1[2]

(* list.sort(key=success_rate, reverse=True): the stable sort, highest     *)
(* rate first; a template goes behind every template of the sorted prefix  *)
(* whose rate is not lower than its own, so equal rates keep their order.  *)
RECURSIVE SortBySuccessRate(_)
SortBySuccessRate(ts) ==
    IF ts = <<>> THEN <<>>
    ELSE LET x == ts[Len(ts)]
             before == SortBySuccessRate(SubSeq(ts, 1, Len(ts) - 1))
         IN  SelectSeq(before, LAMBDA t : ~RateLess(t.success_rate, x.success_rate))
             \o <<x>> \o
             SelectSeq(before, LAMBDA t : RateLess(t.success_rate, x.success_rate))

(* The if/elif/elif of find_matching_templates for one template.  A        *)
(* pattern that is the empty string is falsy and decides nothing.          *)
Matches(t, job) ==
    \/ t.company_pattern # <<>> /\ In(Lower(t.company_pattern), Lower(job.company))
    \/ t.job_type_pattern # <<>> /\ In(Lower(t.job_type_pattern), Lower(job.job_type))
    \/ \E k \in DOMAIN t.tags : In(Lower(t.tags[k]), Lower(job.title))

(* The list find_matching_templates returns.                               *)
matching_templates(job) ==
    SortBySuccessRate(SelectSeq(templates, LAMBDA t : Matches(t, job)))

find_matching_templates(job) ==
    /\ pc = "idle"
    /\ ret' = [op |-> "find_matching_templates", value |-> matching_templates(job),
               job |-> job]
    /\ last_exc' = "none"
    /\ cycle' = NoCycle
    /\ UNCHANGED <<templates, templates_file, active_workflows, recording_mode,
                   next_id, now, pc, rp_template, rp_i, rp_success, rp_log,
                   rp_result, rp_seq, hist>>
    /\ UNCHANGED tracker_vars
    /\ UNCHANGED automation_vars

----------------------------------------------------------------------------
(* ApplicationTracker.                                                     *)

(* The job postings the opportunity feed can present.                      *)
Jobs ==
    { [kind |-> "obj", company |-> <<"a">>, title |-> <<"b", "_", "c">>,
       job_type |-> <<"F">>, description |-> <<"x">>],
      [kind |-> "obj", company |-> <<"a">>, title |-> <<"b", "_", "c">>,
       job_type |-> <<"F">>, description |-> <<"y">>],
      [kind |-> "obj", company |-> <<"a", "_", "b">>, title |-> <<"c">>,
       job_type |-> <<>>, description |-> <<"x">>],
      [kind |-> "obj", company |-> <<"d">>, title |-> <<"c">>,
       job_type |-> <<>>, description |-> <<"y">>] }

(* The jobs a host reports by itself.                                      *)
ReportedJobs == {job \in Jobs : job.description = <<"x">>}

(* The jobs the detector presents to the orchestrator.                     *)
DetectedJobs == ReportedJobs \cup {job \in Jobs : job.company = <<"d">>}

(* Values of daily_limits: small stand-ins for the 50 applications per day *)
(* and the 30 seconds the constructor sets.                                *)
LimitValues == [max_applications_per_day : {1, 2},
                min_delay_between_applications : {0, 1, 2}]

(* datetime.date(): the calendar day of a timestamp.                       *)
Date(t) == t \div DayLength

(* datetime.fromisoformat().                                               *)
FromIsoFormat(d) == DateTime(d.t)

(* save_applications: each record's copy with applied_date as text; the    *)
(* JobPosting goes through default=str.                                    *)
DumpApplication(app) ==
    [app EXCEPT !.applied_date = IsoFormat(@), !.job_posting = ToStr(@)]

DumpApplications(apps) == [i \in DOMAIN apps |-> DumpApplication(apps[i])]

(* _load_applications: applied_date is parsed back, the rest is taken as   *)
(* written.                                                                *)
LoadApplications(file) ==
    [i \in DOMAIN file |-> [file[i] EXCEPT !.applied_date = FromIsoFormat(@)]]

(* A cap that admits one application more.                                 *)
can_apply_today_inclusive ==
    Cardinality({i \in DOMAIN applications :
                     Date(applications[i].applied_date.t) = Date(now)})
        <= daily_limits.max_applications_per_day

TodayApplications ==
    {i \in DOMAIN applications : Date(applications[i].applied_date.t) = Date(now)}

can_apply_today ==
    Cardinality(TodayApplications) < daily_limits.max_applications_per_day

(* The earliest record instead of the latest.                              *)
get_first_application_time ==
    IF applications = <<>> THEN -1
    ELSE CHOOSE t \in {applications[i].applied_date.t : i \in DOMAIN applications} :
             \A i \in DOMAIN applications : applications[i].applied_date.t >= t

(* get_last_application_time; -1 stands for None.                          *)
get_last_application_time ==
    IF applications = <<>> THEN -1
    ELSE CHOOSE t \in {applications[i].applied_date.t : i \in DOMAIN applications} :
             \A i \in DOMAIN applications : applications[i].applied_date.t <= t

should_wait_before_next_application ==
    /\ get_last_application_time # -1
    /\ now - get_last_application_time < daily_limits.min_delay_between_applications

(* A record that is left with the status the dataclass defaults to.       *)
NewApplicationPending(job, workflow_id) ==
    [id |-> Len(applications) + 1, job_posting |-> job, status |-> "pending",
     applied_date |-> DateTime(now), workflow_used |-> workflow_id,
     notes |-> <<>>]

(* The ApplicationRecord that record_application constructs.               *)
NewApplication(job, workflow_id) ==
    [id |-> Len(applications) + 1, job_posting |-> job, status |-> "submitted",
     applied_date |-> DateTime(now), workflow_used |-> workflow_id,
     notes |-> <<>>]

(* The body of record_application: the record enters self.applications     *)
(* and save_applications writes every record.                              *)
StoreApplication(job, workflow_id) ==
    LET app == NewApplication(job, workflow_id)
    IN  /\ applications' = Append(applications, app)
        /\ apps_file' = DumpApplications(Append(applications, app))
        /\ recorded' = Append(recorded, [company |-> job.company, title |-> job.title,
                                         at |-> now, workflow_id |-> workflow_id])
        /\ UNCHANGED daily_limits

record_application(job, workflow_id) ==
    /\ pc = "idle"
    /\ Len(recorded) < MaxApps
    /\ StoreApplication(job, workflow_id)
    /\ ret' = Ret("record_application", <<NewApplication(job, workflow_id)>>)
    /\ last_exc' = "none"
    /\ cycle' = NoCycle
    /\ UNCHANGED <<templates, templates_file, active_workflows, recording_mode,
                   next_id, now, pc, rp_template, rp_i, rp_success, rp_log,
                   rp_result, rp_seq, hist>>
    /\ UNCHANGED automation_vars

(* Members of ApplicationStatus a status update can set.                   *)
StatusValues == {"submitted", "withdrawn"}

(* The notes argument: the default empty string, or a text.                *)
NoteValues == {<<>>, <<"n">>}

(* The identifiers a status update is called with: those of the records a  *)
(* host reports beside one orchestrated application, and one more.         *)
AppIds == 1..(MaxReports + 2)

(* A status update that also stamps the record with the current time.      *)
UpdatedRecordRestamped(app, status, notes) ==
    [app EXCEPT !.status = status,
                !.applied_date = DateTime(now),
                !.notes = IF notes # <<>>
                          THEN @ \o <<[at |-> now, text |-> notes]>> ELSE @]

(* The assignments of update_application_status to the record: the status, *)
(* and the note, when there is one, behind the notes with the time.        *)
UpdatedRecord(app, status, notes) ==
    [app EXCEPT !.status = status,
                !.notes = IF notes # <<>>
                          THEN @ \o <<[at |-> now, text |-> notes]>> ELSE @]

update_application_status(app_id, status, notes) ==
    /\ pc = "idle"
    /\ IF Has(applications, app_id)
       THEN LET i == At(applications, app_id)
                apps == [applications EXCEPT
                             ![i] = UpdatedRecord(@, status, notes)]
            IN  /\ notes # <<>> => Len(applications[i].notes) < MaxNotes
                /\ applications' = apps
                /\ apps_file' = DumpApplications(apps)
       ELSE UNCHANGED <<applications, apps_file>>
    /\ ret' = Ret("update_application_status", <<>>)
    /\ last_exc' = "none"
    /\ cycle' = NoCycle
    /\ UNCHANGED <<daily_limits, recorded>>
    /\ UNCHANGED <<templates, templates_file, active_workflows, recording_mode,
                   next_id, now, pc, rp_template, rp_i, rp_success, rp_log,
                   rp_result, rp_seq, hist>>
    /\ UNCHANGED automation_vars

(* The dictionary get_applications_summary returns.                        *)
applications_summary ==
    [total_applications |-> Len(applications),
     applications_by_status |->
         [st \in {applications[i].status : i \in DOMAIN applications} |->
              Cardinality({i \in DOMAIN applications : applications[i].status = st})],
     applications_today |-> Cardinality(TodayApplications),
     daily_limit_remaining |->
         daily_limits.max_applications_per_day - Cardinality(TodayApplications)]

get_applications_summary ==
    /\ pc = "idle"
    /\ ret' = Ret("get_applications_summary", <<applications_summary>>)
    /\ last_exc' = "none"
    /\ cycle' = NoCycle
    /\ UNCHANGED <<templates, templates_file, active_workflows, recording_mode,
                   next_id, now, pc, rp_template, rp_i, rp_success, rp_log,
                   rp_result, rp_seq, hist>>
    /\ UNCHANGED tracker_vars
    /\ UNCHANGED automation_vars

----------------------------------------------------------------------------
(* LinkedInWorkflowAutomation: eligibility.                                *)

(* hashlib.md5(...).hexdigest(): a digest is equal to another exactly when *)
(* the texts are equal (collisions of MD5 are not modelled).               *)
Md5(text) == <<"md5", text>>

(* The text f"{company}_{title}" that _should_apply_to_job hashes.         *)
JobKey(job) == job.company \o <<"_">> \o job.title

(* The existing_apps comprehension of _should_apply_to_job: "duplicate"    *)
(* when it is not empty, "new" when it is empty, "raise" when it reads     *)
(* .company of a job_posting that was loaded from the file as text.        *)
existing_apps(job) ==
    IF \E i \in DOMAIN applications : applications[i].job_posting.kind = "str"
    THEN "raise"
    ELSE IF \E i \in DOMAIN applications :
                Md5(JobKey(applications[i].job_posting)) = Md5(JobKey(job))
         THEN "duplicate"
    ELSE "new"

(* A decision that leaves the pacing between applications out.             *)
should_apply_to_job_unpaced(job) ==
    IF ~can_apply_today THEN "skip"
    ELSE CASE existing_apps(job) = "raise" -> "raise"
           [] existing_apps(job) = "duplicate" -> "skip"
           [] existing_apps(job) = "new" -> "apply"

(* _should_apply_to_job: "apply" for True, "skip" for False, "raise" for   *)
(* the AttributeError of existing_apps.                                    *)
should_apply_to_job(job) ==
    IF ~can_apply_today THEN "skip"
    ELSE IF should_wait_before_next_application THEN "skip"
    ELSE CASE existing_apps(job) = "raise" -> "raise"
           [] existing_apps(job) = "duplicate" -> "skip"
           [] existing_apps(job) = "new" -> "apply"

----------------------------------------------------------------------------
(* LinkedInWorkflowAutomation: applying.                                   *)

(* The three steps _manual_application_with_recording records; each is     *)
(* required and has the default retry budget.                              *)
ManualSteps ==
    [i \in 1..3 |-> [kind |-> "obj", required |-> TRUE,
                     max_retries |-> DefaultMaxRetries]]

(* The assignments to template.tags, company_pattern, job_type_pattern.    *)
WithHints(t, job) ==
    [t EXCEPT !.tags = <<Lower(job.job_type), Lower(job.company)>>,
              !.company_pattern = job.company,
              !.job_type_pattern = job.job_type]

(* _manual_application_with_recording: start_recording_workflow, three     *)
(* record_step calls, stop_recording_workflow, the hints, save_templates,  *)
(* return True.  An AttributeError of either save ends it where it is      *)
(* raised.                                                                 *)
manual_application_with_recording(job) ==
    LET workflow_id == next_id
        draft == [id |-> workflow_id, steps |-> ManualSteps]
        template == NewTemplate(next_id + 1, draft.steps)
        stopped == SaveTemplates(Append(templates, template), templates_file)
        hinted == [stopped.templates EXCEPT
                       ![Len(stopped.templates)] = WithHints(@, job)]
        saved == SaveTemplates(hinted, stopped.file)
        raised == stopped.raised \/ saved.raised
    IN  /\ next_id + 1 \in CycleIds
        /\ next_id' = next_id + 2
        /\ active_workflows' = Remove(Append(active_workflows, draft), workflow_id)
        /\ recording_mode' = FALSE
        /\ templates' = IF stopped.raised THEN stopped.templates ELSE saved.templates
        /\ templates_file' = IF stopped.raised THEN stopped.file ELSE saved.file
        /\ last_exc' = IF raised THEN "AttributeError" ELSE "none"
        /\ ret' = Ret("apply_to_job", <<>>)
        /\ cycle' = [job |-> <<job>>, decision |-> "apply", path |-> "manual",
                     ranking |-> <<>>, running |-> FALSE,
                     outcome |-> IF raised THEN "raised" ELSE "true"]
        /\ UNCHANGED <<now, pc, rp_template, rp_i, rp_success, rp_log, rp_result,
                       rp_seq, hist>>
        /\ UNCHANGED tracker_vars
        /\ UNCHANGED automation_vars

(* apply_to_job up to its first await: the matcher, then the manual path   *)
(* or the call of replay_workflow on the first template of the ranking.    *)
apply_to_job(job) ==
    LET matching == matching_templates(job)
    IN  IF matching = <<>>
        THEN manual_application_with_recording(job)
        ELSE /\ Len(recorded) < MaxApps
             /\ CallReplay(matching[1].id)
             /\ cycle' = [job |-> <<job>>, decision |-> "apply", path |-> "replay",
                          ranking |-> [i \in DOMAIN matching |-> matching[i].id],
                          running |-> TRUE, outcome |-> "none"]
             /\ UNCHANGED tracker_vars
             /\ UNCHANGED automation_vars

(* apply_to_job after replay_workflow returned or raised: the record and   *)
(* the callbacks on success, and the return.                               *)
apply_to_job_resume ==
    /\ cycle.running
    /\ FinishReplay
    /\ ret' = Ret("apply_to_job", <<>>)
    /\ IF ReplayHow = "succeeded"
       THEN /\ StoreApplication(cycle.job[1], rp_template)
            /\ notified' = notified \o Notify("application_submitted",
                                               cycle.job[1], TRUE)
            /\ cycle' = EndCycle("true")
       ELSE /\ UNCHANGED tracker_vars
            /\ UNCHANGED notified
            /\ cycle' = EndCycle(IF ReplayHow = "raised" THEN "raised" ELSE "false")
    /\ UNCHANGED <<is_active, automation_callbacks, tasks>>

(* One job of the loop in _check_for_linkedin_opportunities: the check     *)
(* and, when it says so, apply_to_job.                                     *)
check_opportunity(job) ==
    /\ pc = "idle"
    /\ IF should_apply_to_job(job) = "apply"
       THEN apply_to_job(job)
       ELSE /\ cycle' = [NoCycle EXCEPT !.job = <<job>>, !.decision = should_apply_to_job(job)]
            /\ last_exc' = IF should_apply_to_job(job) = "raise"
                           THEN "AttributeError" ELSE "none"
            /\ ret' = Ret("_should_apply_to_job", <<>>)
            /\ UNCHANGED <<templates, templates_file, active_workflows,
                           recording_mode, next_id, now, pc, rp_template, rp_i,
                           rp_success, rp_log, rp_result, rp_seq, hist>>
            /\ UNCHANGED tracker_vars
            /\ UNCHANGED automation_vars

----------------------------------------------------------------------------
(* LinkedInWorkflowAutomation: the scan loop.  Each start_automation call  *)
(* is a coroutine of the one event loop; a coroutine runs alone from one   *)
(* await that suspends it to the next, so every action below is one such   *)
(* stretch.  The detector's coroutines and the callbacks never suspend.    *)

(* The callbacks a host can register.                                      *)
Listeners == {"l1", "l2"}

(* The job detect_easy_apply_opportunity returns.                          *)
SampleJob ==
    [kind |-> "obj", company |-> <<"a">>, title |-> <<"b", "_", "c">>,
     job_type |-> <<"F">>, description |-> <<"x">>]

(* What a scan finds: nothing when the page is not a job page, or the      *)
(* detector's list.                                                        *)
Detections == {<<>>, <<SampleJob>>}

register_automation_callback(callback) ==
    /\ Len(automation_callbacks) < MaxCallbacks
    /\ automation_callbacks' = Append(automation_callbacks, callback)
    /\ UNCHANGED <<is_active, notified, tasks, now, ret, cycle>>
    /\ UNCHANGED engine_vars
    /\ UNCHANGED tracker_vars

(* The coroutine is suspended in the sleep that follows a scan, whether    *)
(* the scan returned or raised.                                            *)
Sleeping(task) == [NoTask EXCEPT !.at = "sleeping", !.stop_seen = task.stop_seen]

(* One pass of the loop body of start_automation for coroutine k, from the *)
(* call of _check_for_linkedin_opportunities to the first await that       *)
(* suspends: the detector, _should_apply_to_job, and apply_to_job up to    *)
(* the sleep of the manual path or the first step of the replay.           *)
BeginScan(k, found, task) ==
    IF found = <<>> \/ should_apply_to_job(found[1]) # "apply"
    THEN /\ tasks' = [tasks EXCEPT ![k] = Sleeping(task)]
         /\ UNCHANGED <<active_workflows, recording_mode, next_id, rp_seq>>
    ELSE LET job == found[1]
             matching == matching_templates(job)
         IN  IF matching = <<>>
             THEN \* start_recording_workflow, the first record_step, sleep(1)
                  /\ next_id + 1 \in CycleIds
                  /\ active_workflows' =
                         Append(active_workflows,
                                [id |-> next_id, steps |-> <<ManualSteps[1]>>])
                  /\ recording_mode' = TRUE
                  /\ next_id' = next_id + 1
                  /\ tasks' = [tasks EXCEPT ![k] =
                                   [task EXCEPT !.at = "manual", !.job = <<job>>,
                                                !.workflow_id = next_id, !.m = 1]]
                  /\ UNCHANGED rp_seq
             ELSE \* replay_workflow of the best template, up to the executor
                  /\ rp_seq < MaxReplays
                  /\ rp_seq' = rp_seq + 1
                  /\ tasks' = [tasks EXCEPT ![k] =
                                   [task EXCEPT
                                        !.at = IF matching[1].steps = <<>>
                                               THEN "stats" ELSE "replay",
                                        !.job = <<job>>,
                                        !.template = matching[1].id,
                                        !.i = 1, !.success = TRUE]]
                  /\ UNCHANGED <<active_workflows, recording_mode, next_id>>

start_automation(k) ==
    /\ tasks[k].at = "off"
    /\ is_active' = TRUE
    /\ \E found \in Detections : BeginScan(k, found, NoTask)
    /\ UNCHANGED <<templates, templates_file, last_exc, pc, rp_template, rp_i,
                   rp_success, rp_log, rp_result, hist>>
    /\ UNCHANGED <<automation_callbacks, notified, now, ret, cycle>>
    /\ UNCHANGED tracker_vars

(* The sleep after a scan is over: the while condition, and the next scan  *)
(* or the end of the coroutine.                                            *)
task_wake(k) ==
    /\ tasks[k].at = "sleeping"
    /\ IF is_active
       THEN \E found \in Detections : BeginScan(k, found, tasks[k])
       ELSE /\ tasks' = [tasks EXCEPT ![k] = NoTask]
            /\ UNCHANGED <<active_workflows, recording_mode, next_id, rp_seq>>
    /\ UNCHANGED <<templates, templates_file, last_exc, pc, rp_template, rp_i,
                   rp_success, rp_log, rp_result, hist>>
    /\ UNCHANGED <<is_active, automation_callbacks, notified, now, ret, cycle>>
    /\ UNCHANGED tracker_vars

(* The manual path after one of its sleeps: the next record_step and       *)
(* sleep, or, after the third, stop_recording_workflow, the hints,         *)
(* save_templates and the return to the loop, which sleeps.                *)
task_manual(k) ==
    LET task == tasks[k]
        w == task.workflow_id
    IN  /\ task.at = "manual"
        /\ IF task.m < Len(ManualSteps)
           THEN /\ active_workflows' =
                       IF Has(active_workflows, w)
                       THEN [active_workflows EXCEPT
                                 ![At(active_workflows, w)].steps =
                                     Append(@, ManualSteps[task.m + 1])]
                       ELSE active_workflows
                /\ tasks' = [tasks EXCEPT ![k].m = task.m + 1]
                /\ UNCHANGED <<templates, templates_file, recording_mode, next_id>>
           ELSE IF ~Has(active_workflows, w)
           THEN \* stop_recording_workflow raises ValueError
                /\ tasks' = [tasks EXCEPT ![k] = Sleeping(task)]
                /\ UNCHANGED <<templates, templates_file, active_workflows,
                               recording_mode, next_id>>
           ELSE LET steps == active_workflows[At(active_workflows, w)].steps
                    stopped == SaveTemplates(
                                   Append(templates, NewTemplate(next_id, steps)),
                                   templates_file)
                    hinted == [stopped.templates EXCEPT
                                   ![Len(stopped.templates)] = WithHints(@, task.job[1])]
                    saved == SaveTemplates(hinted, stopped.file)
                IN  /\ next_id \in CycleIds
                    /\ next_id' = next_id + 1
                    /\ active_workflows' = Remove(active_workflows, w)
                    /\ recording_mode' = FALSE
                    /\ templates' = IF stopped.raised THEN stopped.templates
                                    ELSE saved.templates
                    /\ templates_file' = IF stopped.raised THEN stopped.file
                                         ELSE saved.file
                    /\ tasks' = [tasks EXCEPT ![k] = Sleeping(task)]
        /\ UNCHANGED <<last_exc, pc, rp_template, rp_i, rp_success, rp_log,
                       rp_result, rp_seq, hist>>
        /\ UNCHANGED <<is_active, automation_callbacks, notified, now, ret, cycle>>
        /\ UNCHANGED tracker_vars

(* The executor is done with step i of coroutine k's replay: the rest of   *)
(* the loop body and, unless the loop ends, the next call of the executor. *)
task_step(k, outcome) ==
    LET task == tasks[k]
        steps == templates[At(templates, task.template)].steps
        step == steps[task.i]
    IN  /\ task.at = "replay"
        /\ tasks' = [tasks EXCEPT ![k] =
                         [task EXCEPT
                              !.success = SuccessAfter(step, outcome, task.success),
                              !.at = IF Breaks(step, outcome) \/ task.i = Len(steps)
                                     THEN "stats" ELSE "replay",
                              !.i = IF Breaks(step, outcome) \/ task.i = Len(steps)
                                    THEN task.i ELSE task.i + 1]]
        /\ UNCHANGED engine_vars
        /\ UNCHANGED <<is_active, automation_callbacks, notified, now, ret, cycle>>
        /\ UNCHANGED tracker_vars

(* What coroutine k's replay does after its loop.                          *)
TaskSaved(k) ==
    SaveTemplates([templates EXCEPT ![At(templates, tasks[k].template)] =
                       UpdateStatistics(@, tasks[k].success)],
                  templates_file)

TaskHow(k) ==
    IF TaskSaved(k).raised THEN "raised"
    ELSE IF tasks[k].success THEN "succeeded" ELSE "failed"

(* After the loop of coroutine k's replay: the statistics update,          *)
(* save_templates, and in apply_to_job the record and the callbacks when   *)
(* replay_workflow returned True; then the loop of start_automation        *)
(* sleeps.                                                                 *)
task_finish(k) ==
    /\ tasks[k].at = "stats"
    /\ templates' = TaskSaved(k).templates
    /\ templates_file' = TaskSaved(k).file
    /\ hist' = [hist EXCEPT ![tasks[k].template][TaskHow(k)] = @ + 1]
    /\ IF TaskHow(k) = "succeeded"
       THEN /\ StoreApplication(tasks[k].job[1], tasks[k].template)
            /\ notified' = notified \o Notify("application_submitted",
                                               tasks[k].job[1], TRUE)
       ELSE /\ UNCHANGED tracker_vars
            /\ UNCHANGED notified
    /\ tasks' = [tasks EXCEPT ![k] = Sleeping(tasks[k])]
    /\ UNCHANGED <<active_workflows, recording_mode, next_id, last_exc, pc,
                   rp_template, rp_i, rp_success, rp_log, rp_result, rp_seq>>
    /\ UNCHANGED <<is_active, automation_callbacks, now, ret, cycle>>

stop_automation ==
    /\ is_active' = FALSE
    /\ tasks' = [k \in TaskIds |->
                     IF tasks[k].at = "off" THEN tasks[k]
                     ELSE [tasks[k] EXCEPT !.stop_seen = TRUE]]
    /\ UNCHANGED <<automation_callbacks, notified, now, ret, cycle>>
    /\ UNCHANGED engine_vars
    /\ UNCHANGED tracker_vars

----------------------------------------------------------------------------
(* The environment: the clock and the process.                             *)

Tick ==
    /\ now < MaxTime
    /\ now' = now + 1
    /\ UNCHANGED engine_vars
    /\ UNCHANGED tracker_vars
    /\ UNCHANGED automation_vars
    /\ UNCHANGED <<ret, cycle>>

(* The process ends and starts again: WorkflowEngine.__init__ and          *)
(* ApplicationTracker.__init__ build the state from the two files.         *)
Restart ==
    /\ pc = "idle"
    /\ templates' = LoadTemplates(templates_file)
    /\ active_workflows' = <<>>
    /\ recording_mode' = FALSE
    /\ applications' = LoadApplications(apps_file)
    /\ last_exc' = "none"
    /\ rp_result' = "none"
    /\ rp_log' = <<>>
    /\ rp_success' = FALSE
    /\ rp_i' = 1
    /\ rp_template' = 0
    /\ ret' = NoRet
    /\ cycle' = NoCycle
    /\ is_active' = FALSE
    /\ automation_callbacks' = <<>>
    /\ tasks' = [k \in TaskIds |-> NoTask]
    /\ UNCHANGED <<templates_file, apps_file, next_id, now, pc, rp_seq, hist,
                   daily_limits, recorded, notified>>

----------------------------------------------------------------------------
(* Specifications.                                                         *)

Init ==
    /\ templates = <<>>
    /\ templates_file = <<>>
    /\ active_workflows = <<>>
    /\ recording_mode = FALSE
    /\ next_id = 1
    /\ now = 0
    /\ last_exc = "none"
    /\ pc = "idle"
    /\ rp_template = 0
    /\ rp_i = 1
    /\ rp_success = FALSE
    /\ rp_log = <<>>
    /\ rp_result = "none"
    /\ rp_seq = 0
    /\ hist = [id \in IdRange \cup CycleIds |->
                    [succeeded |-> 0, failed |-> 0, raised |-> 0]]
    /\ applications = <<>>
    /\ apps_file = <<>>
    /\ daily_limits = [max_applications_per_day |-> 2,
                       min_delay_between_applications |-> 1]
    /\ recorded = <<>>
    /\ ret = NoRet
    /\ cycle = NoCycle
    /\ is_active = FALSE
    /\ automation_callbacks = <<>>
    /\ notified = <<>>
    /\ tasks = [k \in TaskIds |-> NoTask]

(* The engine driven by one owner: recording, replay, the clock, restarts. *)
Next ==
    \/ start_recording_workflow
    \/ \E w \in IdRange, step \in StepValues : record_step(w, step)
    \/ \E w \in IdRange : stop_recording_workflow(w)
    \/ \E t \in IdRange : replay_workflow(t)
    \/ \E outcome \in Outcomes : replay_step(outcome)
    \/ replay_finish
    \/ Tick
    \/ Restart

Spec == Init /\ [][Next]_vars

(* The governor: recorded applications, the clock, restarts.               *)
GovernorNext ==
    \/ \E job \in Jobs : record_application(job, 1)
    \/ Tick
    \/ Restart

(* The governor under every configuration of its two limits.               *)
GovernorInit ==
    /\ templates = <<>>
    /\ templates_file = <<>>
    /\ active_workflows = <<>>
    /\ recording_mode = FALSE
    /\ next_id = 1
    /\ now = 0
    /\ last_exc = "none"
    /\ pc = "idle"
    /\ rp_template = 0
    /\ rp_i = 1
    /\ rp_success = FALSE
    /\ rp_log = <<>>
    /\ rp_result = "none"
    /\ rp_seq = 0
    /\ hist = [id \in IdRange \cup CycleIds |->
                    [succeeded |-> 0, failed |-> 0, raised |-> 0]]
    /\ applications = <<>>
    /\ apps_file = <<>>
    /\ daily_limits \in LimitValues
    /\ recorded = <<>>
    /\ ret = NoRet
    /\ cycle = NoCycle
    /\ is_active = FALSE
    /\ automation_callbacks = <<>>
    /\ notified = <<>>
    /\ tasks = [k \in TaskIds |-> NoTask]

GovernorSpec == GovernorInit /\ [][GovernorNext]_vars

(* The templates file an earlier run of the program left: empty, or with   *)
(* the one template that run recorded and saved.                           *)
EarlierFiles ==
    { <<>>,
      SaveTemplates(<<[id |-> 0,
                       steps |-> <<[kind |-> "obj", required |-> TRUE,
                                    max_retries |-> DefaultMaxRetries]>>,
                       success_rate |-> <<0, 1>>, usage_count |-> 0,
                       created_date |-> DateTime(0), last_updated |-> DateTime(0),
                       company_pattern |-> <<>>, job_type_pattern |-> <<>>,
                       tags |-> <<>>]>>, <<>>).file }

(* The recorder in a process that starts on the file of an earlier run.    *)
RecorderInit ==
    /\ templates_file \in EarlierFiles
    /\ templates = LoadTemplates(templates_file)
    /\ active_workflows = <<>>
    /\ recording_mode = FALSE
    /\ next_id = 1
    /\ now = 0
    /\ last_exc = "none"
    /\ pc = "idle"
    /\ rp_template = 0
    /\ rp_i = 1
    /\ rp_success = FALSE
    /\ rp_log = <<>>
    /\ rp_result = "none"
    /\ rp_seq = 0
    /\ hist = [id \in IdRange \cup CycleIds |->
                    [succeeded |-> 0, failed |-> 0, raised |-> 0]]
    /\ applications = <<>>
    /\ apps_file = <<>>
    /\ daily_limits = [max_applications_per_day |-> 2,
                       min_delay_between_applications |-> 1]
    /\ recorded = <<>>
    /\ ret = NoRet
    /\ cycle = NoCycle
    /\ is_active = FALSE
    /\ automation_callbacks = <<>>
    /\ notified = <<>>
    /\ tasks = [k \in TaskIds |-> NoTask]

RecorderNext ==
    \/ start_recording_workflow
    \/ \E w \in IdRange, step \in StepValues : record_step(w, step)
    \/ \E w \in IdRange : stop_recording(w)
    \/ save_current_workflow
    \/ Tick
    \/ Restart

RecorderSpec == RecorderInit /\ [][RecorderNext]_vars

(* The hints and the success rate of a template in the matcher's store.    *)
HintValues ==
    [company_pattern : {<<>>, <<"A">>},
     job_type_pattern : {<<>>, <<"f">>},
     tags : {<<>>, << <<>> >>, << <<"B">> >>},
     success_rate : {<<0, 1>>, <<1, 2>>, <<1, 1>>}]

(* A template of the store with these hints, after as many replays as its  *)
(* success rate needs.                                                     *)
StoredTemplate(id, h) ==
    [id |-> id, steps |-> <<>>, success_rate |-> h.success_rate,
     usage_count |-> h.success_rate[2],
     created_date |-> DateTime(0), last_updated |-> DateTime(0),
     company_pattern |-> h.company_pattern,
     job_type_pattern |-> h.job_type_pattern, tags |-> h.tags]

(* The jobs the matcher is asked about.                                    *)
MatcherJobs ==
    { [kind |-> "obj", company |-> <<"a", "c">>, title |-> <<"c", "b">>,
       job_type |-> <<"F">>, description |-> <<"x">>],
      [kind |-> "obj", company |-> <<"A">>, title |-> <<"c">>,
       job_type |-> <<"c">>, description |-> <<"x">>],
      [kind |-> "obj", company |-> <<"c">>, title |-> <<"B">>,
       job_type |-> <<"c">>, description |-> <<"x">>],
      [kind |-> "obj", company |-> <<"c">>, title |-> <<"c">>,
       job_type |-> <<>>, description |-> <<"x">>] }

(* The matcher over every store of at most MaxTemplates templates.         *)
MatcherInit ==
    /\ templates \in
           {[i \in DOMAIN h |-> StoredTemplate(i, h[i])] :
                h \in UNION {[1..n -> HintValues] : n \in 0..MaxTemplates}}
    /\ templates_file = <<>>
    /\ active_workflows = <<>>
    /\ recording_mode = FALSE
    /\ next_id = MaxTemplates + 1
    /\ now = 0
    /\ last_exc = "none"
    /\ pc = "idle"
    /\ rp_template = 0
    /\ rp_i = 1
    /\ rp_success = FALSE
    /\ rp_log = <<>>
    /\ rp_result = "none"
    /\ rp_seq = 0
    /\ hist = [id \in IdRange \cup CycleIds |->
                    [succeeded |-> 0, failed |-> 0, raised |-> 0]]
    /\ applications = <<>>
    /\ apps_file = <<>>
    /\ daily_limits = [max_applications_per_day |-> 2,
                       min_delay_between_applications |-> 1]
    /\ recorded = <<>>
    /\ ret = NoRet
    /\ cycle = NoCycle
    /\ is_active = FALSE
    /\ automation_callbacks = <<>>
    /\ notified = <<>>
    /\ tasks = [k \in TaskIds |-> NoTask]

MatcherNext == \E job \in MatcherJobs : find_matching_templates(job)

MatcherSpec == MatcherInit /\ [][MatcherNext]_vars

(* The orchestrator handling detected jobs one after the other, a host     *)
(* that reports applications to the tracker, the clock, restarts.          *)
OrchestratorNext ==
    \/ \E job \in DetectedJobs : check_opportunity(job)
    \/ \E outcome \in Outcomes : replay_step(outcome)
    \/ apply_to_job_resume
    \/ \E job \in ReportedJobs :
           Len(recorded) < MaxReports /\ record_application(job, 1)
    \/ Tick
    \/ Restart

(* The limits the orchestrator runs under: a cap of one application per    *)
(* day without a delay, or a cap of two with a delay.                      *)
CycleLimits ==
    { [max_applications_per_day |-> 1, min_delay_between_applications |-> 0],
      [max_applications_per_day |-> 2, min_delay_between_applications |-> 1] }

OrchestratorInit ==
    /\ templates = <<>>
    /\ templates_file = <<>>
    /\ active_workflows = <<>>
    /\ recording_mode = FALSE
    /\ next_id = 1
    /\ now = 0
    /\ last_exc = "none"
    /\ pc = "idle"
    /\ rp_template = 0
    /\ rp_i = 1
    /\ rp_success = FALSE
    /\ rp_log = <<>>
    /\ rp_result = "none"
    /\ rp_seq = 0
    /\ hist = [id \in IdRange \cup CycleIds |->
                    [succeeded |-> 0, failed |-> 0, raised |-> 0]]
    /\ applications = <<>>
    /\ apps_file = <<>>
    /\ daily_limits \in CycleLimits
    /\ recorded = <<>>
    /\ ret = NoRet
    /\ cycle = NoCycle
    /\ is_active = FALSE
    /\ automation_callbacks = <<>>
    /\ notified = <<>>
    /\ tasks = [k \in TaskIds |-> NoTask]

OrchestratorSpec == OrchestratorInit /\ [][OrchestratorNext]_vars

(* The automation as a host drives it: it registers callbacks, starts     *)
(* and stops the scan loop, and the event loop runs the coroutines.        *)
AutomationNext ==
    \/ \E callback \in Listeners : register_automation_callback(callback)
    \/ \E k \in TaskIds : start_automation(k)
    \/ \E k \in TaskIds : task_wake(k)
    \/ \E k \in TaskIds : task_manual(k)
    \/ \E k \in TaskIds, outcome \in Outcomes : task_step(k, outcome)
    \/ \E k \in TaskIds : task_finish(k)
    \/ stop_automation

AutomationSpec == Init /\ [][AutomationNext]_vars

(* n records of today as record_application made them at the start of the *)
(* day.                                                                    *)
EarlierApplications(n) ==
    [i \in 1..n |->
         [id |-> i,
          job_posting |-> CHOOSE job \in ReportedJobs : job.job_type = <<>>,
          status |-> "submitted", applied_date |-> DateTime(0),
          workflow_used |-> 1, notes |-> <<>>]]

(* The orchestrator in a process whose record set holds at most            *)
(* max_applications_per_day records of today, made in this process or      *)
(* loaded from the file.                                                   *)
CapInit ==
    /\ templates = <<>>
    /\ templates_file = <<>>
    /\ active_workflows = <<>>
    /\ recording_mode = FALSE
    /\ next_id = 1
    /\ now = 0
    /\ last_exc = "none"
    /\ pc = "idle"
    /\ rp_template = 0
    /\ rp_i = 1
    /\ rp_success = FALSE
    /\ rp_log = <<>>
    /\ rp_result = "none"
    /\ rp_seq = 0
    /\ hist = [id \in IdRange \cup CycleIds |->
                    [succeeded |-> 0, failed |-> 0, raised |-> 0]]
    /\ daily_limits \in CycleLimits
    /\ \E n \in 0..daily_limits.max_applications_per_day :
           /\ apps_file = DumpApplications(EarlierApplications(n))
           /\ applications \in {EarlierApplications(n), LoadApplications(apps_file)}
           /\ recorded = [i \in 1..n |->
                              [company |-> EarlierApplications(n)[i].job_posting.company,
                               title |-> EarlierApplications(n)[i].job_posting.title,
                               at |-> 0, workflow_id |-> 1]]
    /\ ret = NoRet
    /\ cycle = NoCycle
    /\ is_active = FALSE
    /\ automation_callbacks = <<>>
    /\ notified = <<>>
    /\ tasks = [k \in TaskIds |-> NoTask]

(* The orchestrator handling detected jobs one after the other, and the    *)
(* clock.                                                                  *)
CapNext ==
    \/ \E job \in DetectedJobs : check_opportunity(job)
    \/ \E outcome \in Outcomes : replay_step(outcome)
    \/ apply_to_job_resume
    \/ Tick

CapSpec == CapInit /\ [][CapNext]_vars

(* The record set under everything that works on it: reported            *)
(* applications, status updates, summaries, the orchestrator's handling of *)
(* detected jobs, the clock, restarts.                                     *)
HistoryNext ==
    \/ \E job \in ReportedJobs :
           Len(recorded) <= MaxReports /\ record_application(job, 1)
    \/ \E app_id \in AppIds, status \in StatusValues, notes \in NoteValues :
           update_application_status(app_id, status, notes)
    \/ get_applications_summary
    \/ check_opportunity(SampleJob)
    \/ \E outcome \in Outcomes : replay_step(outcome)
    \/ apply_to_job_resume
    \/ Tick
    \/ Restart

HistorySpec == Init /\ [][HistoryNext]_vars

(* The event loop resumes every coroutine whose await is over: a sleep    *)
(* ends, and the executor returns or raises.                               *)
AutomationFairness ==
    \A k \in TaskIds :
        /\ WF_vars(task_wake(k))
        /\ WF_vars(task_manual(k))
        /\ WF_vars(\E outcome \in Outcomes : task_step(k, outcome))
        /\ WF_vars(task_finish(k))

AutomationFairSpec == AutomationSpec /\ AutomationFairness

----------------------------------------------------------------------------
(* Vocabulary of the properties.                                           *)

(* The log belongs to a replay of a template of the store.                 *)
HasReplay == rp_pos # 0 /\ rp_result # "NotFound" /\ (pc # "idle" \/ rp_result # "none")

rp_steps == templates[rp_pos].steps

ExecEntries == {k \in DOMAIN rp_log : rp_log[k].op = "exec"}

ExecOf(i) == {k \in ExecEntries : rp_log[k].step = i}

Attempts(i) == Cardinality(ExecOf(i))

(* Step i was executed and no execution of it succeeded.                   *)
StepFailed(i) == ExecOf(i) # {} /\ \A k \in ExecOf(i) : rp_log[k].outcome # "ok"

RequiredStepFailed == \E i \in DOMAIN rp_steps : rp_steps[i].required /\ StepFailed(i)

(* The loop over the steps is over.                                        *)
LoopOver == pc = "stats" \/ (pc = "idle" /\ rp_log # <<>>)

(* Records of today, counted from the record_application calls.            *)
RecordedToday == {k \in DOMAIN recorded : Date(recorded[k].at) = Date(now)}

----------------------------------------------------------------------------
(* Properties.                                                             *)

(* C1: a step that fails on every attempt is executed exactly              *)
(* max_retries + 1 times before it is treated as failed.                   *)
C1_FailedStepUsesRetryBudget ==
    HasReplay =>
        \A i \in DOMAIN rp_steps :
            StepFailed(i) => Attempts(i) = rp_steps[i].max_retries + 1

(* C2: when a required step fails, the replay ends Failed (the call        *)
(* returns False) and no step after it is executed.                        *)
C2_RequiredFailureEndsFailed ==
    (HasReplay /\ RequiredStepFailed) =>
        /\ pc = "idle" => rp_result = "Failed"
        /\ \A i \in DOMAIN rp_steps :
               (rp_steps[i].required /\ StepFailed(i)) =>
                   \A j \in DOMAIN rp_steps : j > i => ExecOf(j) = {}

(* The part of C2 that is about the loop: a failed required step is the    *)
(* last step executed, and the loop leaves success False.                  *)
RequiredFailureStopsLoop ==
    (HasReplay /\ RequiredStepFailed) =>
        /\ pc # "loop"
        /\ ~rp_success
        /\ \A i \in DOMAIN rp_steps :
               (rp_steps[i].required /\ StepFailed(i)) =>
                   \A j \in DOMAIN rp_steps : j > i => ExecOf(j) = {}

(* Every step was executed, and each one succeeded or is an optional step  *)
(* that failed.                                                            *)
AllStepsCompleted ==
    \A i \in DOMAIN rp_steps :
        /\ ExecOf(i) # {}
        /\ StepFailed(i) => ~rp_steps[i].required

(* C3: a replay in which every step succeeds or is an optional step that   *)
(* fails ends Succeeded: its loop ends with success True, the value the    *)
(* call records in the statistics and returns.                             *)
C3_OptionalFailuresSucceed ==
    (HasReplay /\ pc = "stats" /\ AllStepsCompleted) => rp_success

(* C4: steps are executed in template order, and after an optional step    *)
(* fails every later step is still executed, unless a required step fails. *)
C4_OrderAndContinuation ==
    HasReplay =>
        /\ \A k \in ExecEntries :
               rp_log[k].step = Cardinality({m \in ExecEntries : m <= k})
        /\ LoopOver =>
               \A j \in DOMAIN rp_steps :
                   \/ ExecOf(j) # {}
                   \/ \E m \in DOMAIN rp_steps :
                          m < j /\ rp_steps[m].required /\ StepFailed(m)

(* An optional first step raised and the step after it was executed.       *)
C4_Witness ==
    /\ HasReplay
    /\ LoopOver
    /\ Len(rp_steps) >= 2
    /\ ~rp_steps[1].required
    /\ \E k \in ExecOf(1) : rp_log[k].outcome = "raise"
    /\ ExecOf(2) # {}

(* C5: a template's usage_count is the number of its replays that ended    *)
(* Succeeded or Failed; nothing else changes it.                           *)
C5_UsageCountIsReplayCount ==
    \A i \in DOMAIN templates :
        templates[i].usage_count =
            hist[templates[i].id].succeeded + hist[templates[i].id].failed

(* C6: success_rate * usage_count is the number of the template's replays  *)
(* that ended Succeeded.                                                   *)
C6_SuccessRateIsSucceededShare ==
    \A i \in DOMAIN templates :
        templates[i].success_rate[1] * templates[i].usage_count =
            hist[templates[i].id].succeeded * templates[i].success_rate[2]

(* C7: a replay of an identifier that is not in the store returns False    *)
(* at once: no step is executed, no template changes, nothing is written.  *)
C7_UnknownTemplateNoSideEffects ==
    [][(rp_seq' # rp_seq /\ ~Has(templates, rp_template')) =>
           /\ rp_result' = "NotFound"
           /\ pc' = "idle"
           /\ rp_log' = <<>>
           /\ templates' = templates
           /\ templates_file' = templates_file
           /\ hist' = hist]_vars

(* An unknown identifier was replayed while the store holds a template.    *)
C7_Witness ==
    /\ rp_result = "NotFound"
    /\ templates # <<>>
    /\ ~Has(templates, rp_template)

(* C8: can_apply_today is True exactly when fewer than                     *)
(* max_applications_per_day records are dated today.                       *)
C8_CanApplyIffUnderCap ==
    can_apply_today <=>
        Cardinality(RecordedToday) < daily_limits.max_applications_per_day

(* Today's records are exactly at the cap, an older record exists, and     *)
(* can_apply_today is False.                                               *)
C8_Witness ==
    /\ Cardinality(RecordedToday) = daily_limits.max_applications_per_day
    /\ \E k \in DOMAIN recorded : Date(recorded[k].at) # Date(now)
    /\ ~can_apply_today

(* C9: should_wait is False without records, and otherwise True exactly    *)
(* while less than min_delay has passed since the most recent record.      *)
C9_ShouldWaitIffWithinDelay ==
    should_wait_before_next_application <=>
        /\ recorded # <<>>
        /\ now - recorded[Len(recorded)].at
               < daily_limits.min_delay_between_applications

(* With a positive delay, the delay has passed since the only records and  *)
(* should_wait is False again.                                             *)
C9_Witness ==
    /\ Len(recorded) >= 2
    /\ recorded[1].at # recorded[2].at
    /\ daily_limits.min_delay_between_applications > 0
    /\ now - recorded[Len(recorded)].at
           >= daily_limits.min_delay_between_applications
    /\ ~should_wait_before_next_application

(* C10: once an application was recorded for a job, every job with the     *)
(* same company and title is found to be a duplicate and is not applied    *)
(* to.                                                                     *)
C10_SameCompanyTitleIsDuplicate ==
    \A k \in DOMAIN recorded, job \in Jobs :
        (job.company = recorded[k].company /\ job.title = recorded[k].title) =>
            /\ existing_apps(job) = "duplicate"
            /\ should_apply_to_job(job) # "apply"

(* The part of C10 that survives a restart: such a job is never applied    *)
(* to.                                                                     *)
RecordedJobNeverApplied ==
    \A k \in DOMAIN recorded, job \in Jobs :
        (job.company = recorded[k].company /\ job.title = recorded[k].title) =>
            should_apply_to_job(job) # "apply"

(* C11: record_application adds exactly one record, with status submitted, *)
(* the job and the workflow identifier it was called with; it writes every *)
(* record to the file, returns the new record and leaves the records that  *)
(* were stored before as they were.                                        *)
C11_RecordAddsOneSubmitted ==
    [][recorded' # recorded =>
           LET n == Len(applications)
               app == applications'[n + 1]
               call == recorded'[Len(recorded')]
           IN  /\ Len(applications') = n + 1
               /\ SubSeq(applications', 1, n) = applications
               /\ app.status = "submitted"
               /\ app.job_posting \in Jobs
               /\ app.job_posting.company = call.company
               /\ app.job_posting.title = call.title
               /\ app.workflow_used = call.workflow_id
               /\ app.applied_date = DateTime(now)
               /\ \A i \in 1..n : applications[i].id # app.id
               /\ ret' = Ret("record_application", <<app>>)
               /\ Len(apps_file') = n + 1
               /\ \A i \in 1..(n + 1) :
                      /\ apps_file'[i].id = applications'[i].id
                      /\ apps_file'[i].status = applications'[i].status
                      /\ apps_file'[i].workflow_used = applications'[i].workflow_used
                      /\ apps_file'[i].applied_date.t = applications'[i].applied_date.t]_vars

(* A record was added to records that a restart had loaded from the file.  *)
C11_Witness ==
    /\ ret.op = "record_application"
    /\ Len(applications) >= 2
    /\ applications[1].job_posting.kind = "str"
    /\ applications[Len(applications)] = ret.value[1]
    /\ ret.value[1].status = "submitted"

(* The job is not eligible: today's records have reached the cap, or the   *)
(* last record is younger than the delay, or a record has the job's        *)
(* company and title.                                                      *)
Ineligible(job) ==
    \/ Cardinality(RecordedToday) >= daily_limits.max_applications_per_day
    \/ /\ recorded # <<>>
       /\ now - recorded[Len(recorded)].at
              < daily_limits.min_delay_between_applications
    \/ \E k \in DOMAIN recorded :
           recorded[k].company = job.company /\ recorded[k].title = job.title

(* C12: when the orchestrator handles a job that is not eligible, it does  *)
(* not apply: no matching, no replay, no recording, and the templates, the *)
(* templates file, the drafts, the recording flag and the application      *)
(* records stay as they are.                                               *)
C12_IneligibleJobIsSkipped ==
    [][\A job \in Jobs :
           (pc = "idle" /\ cycle'.job = <<job>> /\ Ineligible(job)) =>
               /\ cycle'.decision # "apply"
               /\ cycle'.path = "none"
               /\ cycle'.ranking = <<>>
               /\ pc' = "idle"
               /\ rp_seq' = rp_seq
               /\ next_id' = next_id
               /\ templates' = templates
               /\ templates_file' = templates_file
               /\ active_workflows' = active_workflows
               /\ recording_mode' = recording_mode
               /\ applications' = applications
               /\ apps_file' = apps_file]_vars

(* A job was skipped only because it has a record: the cap and the delay   *)
(* allow an application, and the store holds a template that matches it.   *)
C12_Witness ==
    /\ cycle.decision = "skip"
    /\ cycle.job # <<>>
    /\ Ineligible(cycle.job[1])
    /\ can_apply_today
    /\ ~should_wait_before_next_application
    /\ matching_templates(cycle.job[1]) # <<>>

(* The step is the end of an apply_to_job call that replayed a template.   *)
ReplayCycleEnds == cycle.running /\ ~cycle'.running

(* The replay that ends in this step ran every step to success: its loop   *)
(* is over with success True.                                              *)
ReplayLoopSucceeded == pc = "stats" /\ rp_success

(* The step adds one record, submitted, for the job and the template of    *)
(* the cycle.                                                              *)
CycleRecordsOnce ==
    /\ Len(applications') = Len(applications) + 1
    /\ SubSeq(applications', 1, Len(applications)) = applications
    /\ applications'[Len(applications')].status = "submitted"
    /\ applications'[Len(applications')].job_posting = cycle.job[1]
    /\ applications'[Len(applications')].workflow_used = rp_template

(* C13: with matching templates the orchestrator replays the first         *)
(* template of the ranking; a replay that ends Succeeded is followed by    *)
(* exactly one record_application call, a replay that ends Failed by none, *)
(* and the only status written is submitted.                               *)
C13_SucceededReplayRecordsOnce ==
    [][ReplayCycleEnds =>
           /\ cycle.ranking # <<>>
           /\ rp_template = cycle.ranking[1]
           /\ IF ReplayLoopSucceeded
              THEN CycleRecordsOnce
              ELSE applications' = applications /\ apps_file' = apps_file]_vars

(* What the code does at the end of every orchestrated replay: the         *)
(* template was the first of the ranking, and no record is added, because  *)
(* save_templates raises before replay_workflow can return.                *)
ReplayCycleNeverRecords ==
    [][ReplayCycleEnds =>
           /\ cycle.ranking # <<>>
           /\ rp_template = cycle.ranking[1]
           /\ cycle'.outcome = "raised"
           /\ applications' = applications
           /\ apps_file' = apps_file]_vars

(* C14: when no template matches an eligible job, the orchestrator records *)
(* a template with hints taken from the job, and the manual run counts as  *)
(* an application: a record exists for the job, dated today, so the job is *)
(* a duplicate from then on.                                               *)
C14_ManualRunCountsAsApplication ==
    (cycle.path = "manual") =>
        /\ cycle.outcome = "true"
        /\ templates # <<>>
        /\ templates[Len(templates)].steps = ManualSteps
        /\ templates[Len(templates)].company_pattern = cycle.job[1].company
        /\ templates[Len(templates)].job_type_pattern = cycle.job[1].job_type
        /\ \E i \in TodayApplications :
               /\ applications[i].job_posting = cycle.job[1]
               /\ applications[i].status = "submitted"
        /\ should_apply_to_job(cycle.job[1]) = "skip"

(* What the code does on the manual path: it never adds a record, and it   *)
(* ends in the AttributeError of save_templates.                           *)
ManualRunLeavesNoRecord ==
    (cycle.path = "manual") =>
        /\ cycle.outcome = "raised"
        /\ \A i \in DOMAIN applications :
               applications[i].job_posting.kind = "obj" =>
                   applications[i].job_posting # cycle.job[1]

(* The three rules, as substring tests without regard to case.             *)
CompanyRule(t, job) == In(Lower(t.company_pattern), Lower(job.company))

JobTypeRule(t, job) == In(Lower(t.job_type_pattern), Lower(job.job_type))

TagRule(t, job) == \E k \in DOMAIN t.tags : In(Lower(t.tags[k]), Lower(job.title))

(* The template is in the list the matcher returned.                       *)
Returned(t) == \E k \in DOMAIN ret.value : ret.value[k].id = t.id

(* C15: the matcher returns a template exactly when its company pattern    *)
(* occurs in the job's company, or its job type pattern occurs in the      *)
(* job's type, or one of its tags occurs in the job's title, without       *)
(* regard to case; empty patterns and tags are patterns like any other.    *)
C15_ReturnedIffSomeRuleFires ==
    ret.op = "find_matching_templates" =>
        \A i \in DOMAIN templates :
            Returned(templates[i]) <=>
                \/ CompanyRule(templates[i], ret.job)
                \/ JobTypeRule(templates[i], ret.job)
                \/ TagRule(templates[i], ret.job)

(* What the code does: the two pattern rules apply to patterns that are    *)
(* not empty only; an empty tag matches every title.                       *)
ReturnedIffNonEmptyRuleFires ==
    ret.op = "find_matching_templates" =>
        \A i \in DOMAIN templates :
            Returned(templates[i]) <=>
                \/ templates[i].company_pattern # <<>>
                       /\ CompanyRule(templates[i], ret.job)
                \/ templates[i].job_type_pattern # <<>>
                       /\ JobTypeRule(templates[i], ret.job)
                \/ TagRule(templates[i], ret.job)

(* C16: the list the matcher returns holds the matching templates, each    *)
(* once and as it is in the store, with success rates that never rise      *)
(* along the list and equal rates in store order; the call changes no      *)
(* template and not the file.                                              *)
C16_RankingDescendingStable ==
    [][ret'.op = "find_matching_templates" =>
           LET r == ret'.value
           IN  /\ \A i, j \in DOMAIN r :
                      i < j =>
                          /\ ~RateLess(r[i].success_rate, r[j].success_rate)
                          /\ r[i].success_rate = r[j].success_rate =>
                                 At(templates, r[i].id) < At(templates, r[j].id)
               /\ \A k \in DOMAIN r : r[k] = templates[At(templates, r[k].id)]
               /\ \A i \in DOMAIN templates :
                      Cardinality({k \in DOMAIN r : r[k].id = templates[i].id})
                          = IF Matches(templates[i], ret'.job) THEN 1 ELSE 0
               /\ templates' = templates
               /\ templates_file' = templates_file]_vars

(* The first template matched by its company pattern, the second by a tag  *)
(* and with the higher success rate: the second is returned first.         *)
C16_Witness ==
    /\ ret.op = "find_matching_templates"
    /\ Len(templates) >= 2
    /\ templates[1].company_pattern # <<>> /\ templates[1].tags = <<>>
    /\ templates[2].company_pattern = <<>> /\ templates[2].job_type_pattern = <<>>
    /\ RateLess(templates[1].success_rate, templates[2].success_rate)
    /\ Len(ret.value) = 2
    /\ ret.value[1] = templates[2]
    /\ ret.value[2] = templates[1]

(* C17: at most one recording is open: start_recording_workflow with a     *)
(* draft open is refused and opens no second draft.                        *)
C17_AtMostOneOpenDraft == Len(active_workflows) <= 1

(* The step is a stop_recording_workflow call: it is not a tick of the     *)
(* clock, and stop_recording_workflow is the last call after it.           *)
StopCall == ret'.op = "stop_recording_workflow" /\ now' = now

(* The step is a stop_recording_workflow call for the open draft w.        *)
StopsDraft(w) == StopCall /\ ret'.workflow_id = w /\ Has(active_workflows, w)

(* C18: stop_recording_workflow on an open draft adds to the store a       *)
(* template with exactly the draft's steps in their order, usage_count 0   *)
(* and success_rate 0, removes the draft and returns the template.         *)
C18_StopCreatesTemplateFromDraft ==
    [][\A w \in IdRange :
           StopsDraft(w) =>
               LET draft == active_workflows[At(active_workflows, w)]
                   template == templates'[Len(templates')]
               IN  /\ Len(templates') = Len(templates) + 1
                   /\ template.steps = draft.steps
                   /\ template.usage_count = 0
                   /\ template.success_rate = <<0, 1>>
                   /\ active_workflows' = Remove(active_workflows, w)
                   /\ last_exc' = "none"
                   /\ ret'.value = <<template>>]_vars

(* What holds of every such call, whether it returns or raises: the        *)
(* template is in the store with the draft's steps and the draft is gone.  *)
StopFreezesDraft ==
    [][\A w \in IdRange :
           StopsDraft(w) =>
               LET draft == active_workflows[At(active_workflows, w)]
                   template == templates'[Len(templates')]
               IN  /\ Len(templates') = Len(templates) + 1
                   /\ template.steps = draft.steps
                   /\ template.usage_count = 0
                   /\ template.success_rate = <<0, 1>>
                   /\ active_workflows' = Remove(active_workflows, w)]_vars

(* C19: stop_recording_workflow with an identifier that is not an open     *)
(* draft raises ValueError and leaves the templates, the file, the drafts  *)
(* and the recording flag as they are.                                     *)
C19_UnknownWorkflowIsRejected ==
    [][(StopCall /\ ~Has(active_workflows, ret'.workflow_id)) =>
           /\ last_exc' = "ValueError"
           /\ ret'.value = <<>>
           /\ templates' = templates
           /\ templates_file' = templates_file
           /\ active_workflows' = active_workflows
           /\ recording_mode' = recording_mode]_vars

(* stop_recording_workflow was refused for an identifier that is not an    *)
(* open draft, while a draft with a step is open and the store holds a     *)
(* template.                                                               *)
C19_Witness ==
    /\ last_exc = "ValueError"
    /\ ret.op = "stop_recording_workflow"
    /\ ~Has(active_workflows, ret.workflow_id)
    /\ templates # <<>>
    /\ \E i \in DOMAIN active_workflows : active_workflows[i].steps # <<>>
    /\ recording_mode

(* C20: what save_templates wrote, loaded again, has for every template    *)
(* the success_rate, the usage_count and the steps of the template that    *)
(* was saved.                                                              *)
C20_ReloadReproducesTemplates ==
    [][templates_file' # templates_file =>
           LET loaded == LoadTemplates(templates_file')
           IN  /\ Len(loaded) = Len(templates')
               /\ \A i \in DOMAIN loaded :
                      /\ loaded[i].id = templates'[i].id
                      /\ loaded[i].success_rate = templates'[i].success_rate
                      /\ loaded[i].usage_count = templates'[i].usage_count
                      /\ loaded[i].steps = templates'[i].steps]_vars

(* The part of C20 that holds: the identifiers, rates and counts come      *)
(* back, and as many steps.                                                *)
ReloadKeepsStatistics ==
    [][templates_file' # templates_file =>
           LET loaded == LoadTemplates(templates_file')
           IN  /\ Len(loaded) = Len(templates')
               /\ \A i \in DOMAIN loaded :
                      /\ loaded[i].id = templates'[i].id
                      /\ loaded[i].success_rate = templates'[i].success_rate
                      /\ loaded[i].usage_count = templates'[i].usage_count
                      /\ Len(loaded[i].steps) = Len(templates'[i].steps)]_vars

(* The step ends a replay of coroutine k: its statistics update and the    *)
(* return to apply_to_job.                                                 *)
TaskReplayEnds(k) == tasks[k].at = "stats" /\ tasks'[k].at # "stats"

(* The step ends a recording of coroutine k: stop_recording_workflow       *)
(* freezes the draft of the manual path.                                   *)
TaskRecordingEnds(k) ==
    /\ tasks[k].at = "manual"
    /\ tasks[k].m = Len(ManualSteps)
    /\ Has(active_workflows, tasks[k].workflow_id)
    /\ tasks'[k].at # "manual"

(* The step calls every registered callback once, in registration order,   *)
(* with some event name, the job and success.                              *)
ListenersInvoked(job, success) ==
    /\ Len(notified') = Len(notified) + Len(automation_callbacks)
    /\ SubSeq(notified', 1, Len(notified)) = notified
    /\ \A j \in DOMAIN automation_callbacks :
           /\ notified'[Len(notified) + j].callback = automation_callbacks[j]
           /\ notified'[Len(notified) + j].job = job
           /\ notified'[Len(notified) + j].success = success

(* C21: after each replay, successful or not, and after each recording,    *)
(* the orchestrator calls every registered callback once, in registration  *)
(* order, with the event name, the job and the success flag.               *)
C21_ListenersInvokedAfterEachRun ==
    [][\A k \in TaskIds :
           /\ TaskReplayEnds(k) =>
                  ListenersInvoked(tasks[k].job[1], tasks[k].success)
           /\ TaskRecordingEnds(k) =>
                  ListenersInvoked(tasks[k].job[1], TRUE)]_vars

(* What the code does: the callbacks are called only after a replay that   *)
(* returned True, and no replay of the scan loop returns.                  *)
ListenersNeverInvoked == notified = <<>>

(* Coroutine k is inside a replay.                                         *)
InReplay(k) == tasks[k].at \in {"replay", "stats"}

(* The statistics of the template that coroutine k replays.                *)
TaskUsage(k) == templates[At(templates, tasks[k].template)].usage_count

(* A replay is left only through its statistics update, and once it has    *)
(* started it reaches that update.                                         *)
ReplayRunsToItsEnd ==
    /\ [][\A k \in TaskIds :
              (InReplay(k) /\ ~InReplay(k)') =>
                  /\ tasks[k].at = "stats"
                  /\ templates'[At(templates, tasks[k].template)].usage_count
                         = TaskUsage(k) + 1]_vars
    /\ \A k \in TaskIds : InReplay(k) ~> ~InReplay(k)

(* The step begins a scan of coroutine k that applies to a job.            *)
ScanBegins(k) ==
    tasks[k].at = "sleeping" /\ tasks'[k].at \in {"manual", "replay", "stats"}

(* C22: stopping takes effect between scans only: a replay that has        *)
(* started runs to its end, statistics update included; and once           *)
(* stop_automation was called while the loop runs, the loop starts no      *)
(* further scan and terminates.                                            *)
C22_StopEndsLoopBetweenScans ==
    /\ ReplayRunsToItsEnd
    /\ [][\A k \in TaskIds : tasks[k].stop_seen => ~ScanBegins(k)]_vars
    /\ \A k \in TaskIds : tasks[k].stop_seen ~> (tasks[k].at = "off")

(* What the code guarantees: a stopped loop starts no scan and terminates  *)
(* as long as is_active is not set again by another start_automation call. *)
StopEndsLoopUnlessStartedAgain ==
    /\ [][\A k \in TaskIds :
              (tasks[k].stop_seen /\ ~is_active) => ~ScanBegins(k)]_vars
    /\ \A k \in TaskIds :
           (tasks[k].stop_seen /\ ~is_active) ~> (tasks[k].at = "off" \/ is_active)

(* The record's case, by its contents: a record that was loaded from the   *)
(* file holds the text of the JobPosting.                                  *)
CaseOf(app) ==
    [company |-> app.job_posting.company, title |-> app.job_posting.title,
     description |-> app.job_posting.description]

(* C23: the record set only grows: in every step each stored record stays  *)
(* at its place with its identifier, case, workflow and applied_date, and  *)
(* its status and notes change in an update_application_status call only;  *)
(* every record ever made is stored, in the order the records were made.   *)
C23_RecordsAreAppendOnly ==
    [][/\ Len(applications') >= Len(applications)
       /\ \A i \in DOMAIN applications :
              /\ applications'[i].id = applications[i].id
              /\ CaseOf(applications'[i]) = CaseOf(applications[i])
              /\ applications'[i].workflow_used = applications[i].workflow_used
              /\ applications'[i].applied_date = applications[i].applied_date
              /\ (\/ applications'[i].status # applications[i].status
                  \/ applications'[i].notes # applications[i].notes) =>
                     (ret'.op = "update_application_status" /\ now' = now)
       /\ Len(applications') = Len(recorded')
       /\ \A i \in DOMAIN recorded' :
              /\ applications'[i].job_posting.company = recorded'[i].company
              /\ applications'[i].job_posting.title = recorded'[i].title
              /\ applications'[i].workflow_used = recorded'[i].workflow_id
              /\ applications'[i].applied_date = DateTime(recorded'[i].at)]_vars

(* The first record got another status and a note, went through a restart, *)
(* and is still there, at its time, beside a record made later; the        *)
(* orchestrator has handled a job since.                                   *)
C23_Witness ==
    /\ Len(applications) >= 2
    /\ applications[1].status # "submitted"
    /\ applications[1].notes # <<>>
    /\ applications[1].job_posting.kind = "str"
    /\ applications[2].job_posting.kind = "obj"
    /\ applications[1].applied_date.t < applications[2].applied_date.t
    /\ applications[1].notes[1].at > applications[1].applied_date.t
    /\ cycle.decision # "none"

(* The log entry k is an execution that a later execution follows.         *)
FollowedByExec(k) == k \in ExecEntries /\ \E m \in ExecEntries : m > k

(* C24: between the executions of two consecutive steps of a replay the    *)
(* earlier step's delay_after pause elapses, whether the earlier step      *)
(* succeeded, returned a failure or raised.                                *)
C24_PauseBetweenSteps ==
    HasReplay =>
        \A k \in DOMAIN rp_log :
            FollowedByExec(k) =>
                /\ rp_log[k + 1].op = "sleep"
                /\ rp_log[k + 1].step = rp_log[k].step

(* What the code does: the pause follows every execution that returned;   *)
(* an optional step that raised is followed by the next step at once.      *)
PauseUnlessStepRaised ==
    HasReplay =>
        \A k \in DOMAIN rp_log :
            FollowedByExec(k) =>
                IF rp_log[k].outcome = "raise"
                THEN rp_log[k + 1].op = "exec"
                ELSE /\ rp_log[k + 1].op = "sleep"
                     /\ rp_log[k + 1].step = rp_log[k].step

(* Template i after the step has its two dates as datetimes, unless it had *)
(* them as text before the step.                                           *)
KeepsDates(i) ==
    /\ (i \in DOMAIN templates => templates[i].created_date.kind = "datetime")
           => templates'[i].created_date.kind = "datetime"
    /\ (i \in DOMAIN templates => templates[i].last_updated.kind = "datetime")
           => templates'[i].last_updated.kind = "datetime"

(* The step runs save_templates: the end of stop_recording_workflow for an *)
(* open draft, or the end of a replay.                                     *)
SavesTemplates ==
    \/ pc = "stats" /\ pc' = "idle"
    \/ \E w \in IdRange : StopsDraft(w)

(* C25: save_templates leaves the templates in memory as they are, their   *)
(* created_date and last_updated still datetimes, so that every operation  *)
(* that saves again completes without an error.                            *)
C25_SaveLeavesTemplatesUnchanged ==
    [][/\ \A i \in DOMAIN templates' : KeepsDates(i)
       /\ SavesTemplates => last_exc' = "none"]_vars

(* What the code does: after a save that returned, every template in       *)
(* memory holds its two dates as text, and a save that finds such a        *)
(* template in the store raises.                                           *)
SaveTurnsDatesIntoText ==
    [][SavesTemplates =>
           /\ last_exc' = "none" =>
                  \A i \in DOMAIN templates' :
                      /\ templates'[i].created_date.kind = "str"
                      /\ templates'[i].last_updated.kind = "str"
           /\ (\E i \in DOMAIN templates : templates[i].created_date.kind = "str")
                  => last_exc' = "AttributeError"]_vars

(* C26: the recording flag is True exactly when a draft is open, so that   *)
(* save_current_workflow finds a draft whenever the flag is True.          *)
C26_RecordingFlagIffDraftOpen == recording_mode <=> active_workflows # <<>>

(* The half that holds: with the flag set a draft is open, and             *)
(* save_current_workflow never fails to find one.                          *)
FlagImpliesDraftOpen ==
    /\ recording_mode => active_workflows # <<>>
    /\ last_exc # "IndexError"

(* C27: a job is found to be a duplicate only if some record has the same  *)
(* company and the same title, whatever characters the two contain.        *)
C27_DuplicateOnlyForSameCompanyAndTitle ==
    \A job \in Jobs :
        existing_apps(job) = "duplicate" =>
            \E k \in DOMAIN recorded :
                recorded[k].company = job.company /\ recorded[k].title = job.title

(* What the code compares: the text company_title.                         *)
DuplicateIffSameJoinedText ==
    \A job \in Jobs :
        existing_apps(job) = "duplicate" <=>
            /\ existing_apps(job) # "raise"
            /\ \E k \in DOMAIN recorded :
                   recorded[k].company \o <<"_">> \o recorded[k].title
                       = job.company \o <<"_">> \o job.title

(* The step is a check of _should_apply_to_job that is followed by         *)
(* apply_to_job.                                                           *)
CycleApplies ==
    /\ pc = "idle"
    /\ ~cycle.running
    /\ now' = now
    /\ cycle'.decision = "apply"
    /\ cycle'.outcome # cycle.outcome \/ cycle'.running

(* C28: through the orchestrator's cycles, one after the other, the        *)
(* records of today never exceed max_applications_per_day and the          *)
(* summary's daily_limit_remaining is never negative: the orchestrator     *)
(* applies only while today's records are below the cap.                   *)
C28_DailyCountWithinCap ==
    /\ [](/\ Cardinality(TodayApplications)
                 <= daily_limits.max_applications_per_day
          /\ applications_summary.daily_limit_remaining >= 0)
    /\ [][CycleApplies =>
              Cardinality(TodayApplications)
                  < daily_limits.max_applications_per_day]_vars

(* Today's records are at the cap, and for that reason alone the           *)
(* orchestrator skipped a job that has no record.                          *)
C28_Witness ==
    /\ cycle.decision = "skip"
    /\ cycle.job # <<>>
    /\ Cardinality(TodayApplications) = daily_limits.max_applications_per_day
    /\ applications_summary.daily_limit_remaining = 0
    /\ ~should_wait_before_next_application
    /\ existing_apps(cycle.job[1]) = "new"

(* No replay is under way.                                                 *)
AllReplaysCompleted == \A k \in TaskIds : ~InReplay(k)

(* How many replays of the template have ended, in whatever way.           *)
ReplaysOf(id) == hist[id].succeeded + hist[id].failed + hist[id].raised

(* C29: when replays of one template interleave at their awaits, no update *)
(* of the statistics is lost: once all have completed, usage_count is the  *)
(* number of replays and success_rate * usage_count is the number of       *)
(* replays that ended Succeeded.                                           *)
C29_InterleavedReplaysKeepStatistics ==
    AllReplaysCompleted =>
        \A i \in DOMAIN templates :
            /\ templates[i].usage_count = ReplaysOf(templates[i].id)
            /\ templates[i].success_rate[1] * templates[i].usage_count
                   = hist[templates[i].id].succeeded * templates[i].success_rate[2]

(* What holds under every interleaving: usage_count is the number of       *)
(* replays that have ended, and each replay that ends adds one to it and   *)
(* its own success flag to success_rate * usage_count, whatever the other  *)
(* coroutine did in between.                                               *)
NoLostStatisticsUpdate ==
    /\ [](\A i \in DOMAIN templates :
              templates[i].usage_count = ReplaysOf(templates[i].id))
    /\ [][\A k \in TaskIds :
              TaskReplayEnds(k) =>
                  LET before == templates[At(templates, tasks[k].template)]
                      after == templates'[At(templates, tasks[k].template)]
                  IN  /\ after.usage_count = before.usage_count + 1
                      /\ after.success_rate[1] * after.usage_count
                             * before.success_rate[2]
                           = (before.success_rate[1] * before.usage_count
                                + (IF tasks[k].success THEN before.success_rate[2]
                                   ELSE 0))
                             * after.success_rate[2]]_vars

(* Two coroutines are inside replays of the same template, one of them     *)
(* past its loop.                                                          *)
ReplaysOverlap ==
    \E k1, k2 \in TaskIds :
        /\ k1 # k2
        /\ tasks[k1].at = "stats"
        /\ tasks[k2].at = "replay"
        /\ tasks[k1].template = tasks[k2].template

ScanLoopNeverRecords == applications = <<>> /\ recorded = <<>>

============================================================================
